---- MODULE Spec2Model ----
(***************************************************************************)
(* TranslationAPIHandler of src/src/api_handler.py as a state machine:     *)
(* the in-memory cache, the cache file, the rate limiter and, per calling  *)
(* thread, the position inside translate_text / translate_batch /          *)
(* clear_cache / get_cache_stats.  Time is counted in ticks of 0.1 s and    *)
(* kept as ages: how long ago something happened, up to the age from which *)
(* on the code no longer tells the difference.                             *)
(***************************************************************************)
EXTENDS Integers, Sequences, FiniteSets, TLC

\* ------------------------------------------------------------- bounds
\* the longest input list handed to translate_batch
MaxBatch == 2

\* -------------------------------------------------- program constants
\* self.min_request_interval = 0.5 s, in ticks of 0.1 s
min_request_interval == 5
\* time.sleep(0.1) between batch items, in ticks of 0.1 s
batch_delay == 1
\* self.max_retries = 3
max_retries == 3

Threads == {1, 2}

\* ------------------------------------------------------------- strings
\* A text is a sequence of characters; " " is the whitespace character.
IsSpace(c) == c = " "

RECURSIVE lstrip(_)
lstrip(s) == IF s # <<>> /\ IsSpace(Head(s)) THEN lstrip(Tail(s)) ELSE s

RECURSIVE rstrip(_)
rstrip(s) ==
    IF s # <<>> /\ IsSpace(s[Len(s)]) THEN rstrip(SubSeq(s, 1, Len(s) - 1)) ELSE s

\* str.strip()
strip(s) == rstrip(lstrip(s))

\* str.lower()
lower(s) == [j \in 1..Len(s) |-> IF s[j] = "A" THEN "a" ELSE s[j]]

\* The texts callers pass in: empty, whitespace only, plain, padded, and
\* one that differs from another in case only.
InputTexts == { <<>>, <<" ">>, <<"a">>, <<" ", "a", " ">>, <<"A">> }

\* The raw translation strings a provider may send back.
RawTranslations == { <<>>, <<" ">>, <<"v">>, <<"v", " ">>, <<"A">> }

\* hashlib.md5(text.encode('utf-8')).hexdigest(): a digest of the text,
\* taken to be collision free.
get_cache_key(text) == <<"md5">> \o text

Keys == { get_cache_key(strip(t)) : t \in { u \in InputTexts : strip(u) # <<>> } }

\* --------------------------------------------------------- endpoints
Endpoints ==
    << [type |-> "mymemory",       description |-> "MyMemory Free API"],
       [type |-> "libretranslate", description |-> "LibreTranslate Germany"],
       [type |-> "libretranslate", description |-> "Argos Open Tech"],
       [type |-> "lingva",         description |-> "Lingva Translate"] >>

\* What one use of the HTTP session yields: an exception (connection error,
\* retries exhausted, a body that is not the expected JSON) or a response
\* with a status, MyMemory's responseStatus, and a translation field that
\* is present or missing.
Responses ==
    { [exc |-> TRUE, status |-> 0, rs |-> 0, has |-> FALSE, raw |-> <<>>],
      [exc |-> FALSE, status |-> 404, rs |-> 0, has |-> FALSE, raw |-> <<>>] }
    \cup { [exc |-> FALSE, status |-> 200, rs |-> 403, has |-> TRUE, raw |-> <<"v">>],
           [exc |-> FALSE, status |-> 200, rs |-> 200, has |-> FALSE, raw |-> <<>>] }
    \cup { [exc |-> FALSE, status |-> 200, rs |-> 200, has |-> TRUE, raw |-> w]
             : w \in RawTranslations }

\* An adapter's result: (True, translation), (False, error) or an exception.
Ok(tr)   == [st |-> "ok",    value |-> tr]
Fail(m)  == [st |-> "fail",  value |-> <<m>>]
Raised   == [st |-> "raise", value |-> <<"exception">>]

\* A MyMemory adapter that compares the translation with the text as is.
try_mymemory_exact(text, r) ==
    IF r.exc THEN Raised
    ELSE LET translation == strip(IF r.has THEN r.raw ELSE <<>>)
         IN  IF /\ r.status = 200
                /\ r.rs = 200
                /\ translation # <<>>
                /\ translation # text
             THEN Ok(translation)
             ELSE Fail("MyMemory failed")

try_mymemory(text, r) ==
    IF r.exc THEN Raised
    ELSE LET translation == strip(IF r.has THEN r.raw ELSE <<>>)
         IN  IF /\ r.status = 200
                /\ r.rs = 200
                /\ translation # <<>>
                /\ lower(translation) # lower(text)
             THEN Ok(translation)
             ELSE Fail("MyMemory failed")

\* A LibreTranslate adapter that takes any translatedText field for a
\* translation.
try_libretranslate_lenient(text, r) ==
    IF r.exc THEN Raised
    ELSE IF r.status = 200 /\ r.has
         THEN Ok(strip(r.raw))
         ELSE Fail("LibreTranslate failed")

try_libretranslate(text, r) ==
    IF r.exc THEN Raised
    ELSE IF r.status = 200 /\ r.has /\ strip(r.raw) # <<>>
         THEN Ok(strip(r.raw))
         ELSE Fail("LibreTranslate failed")

try_lingva(text, r) ==
    IF r.exc THEN Raised
    ELSE IF r.status = 200 /\ r.has /\ strip(r.raw) # <<>>
         THEN Ok(strip(r.raw))
         ELSE Fail("Lingva failed")

\* The dispatch on the endpoint type, inside try/except Exception.
try_endpoint(text, endpoint_config, r) ==
    LET res == IF endpoint_config.type = "mymemory" THEN try_mymemory(text, r)
               ELSE IF endpoint_config.type = "libretranslate"
                    THEN try_libretranslate(text, r)
               ELSE IF endpoint_config.type = "lingva" THEN try_lingva(text, r)
               ELSE Fail("Unknown endpoint type")
    IN  IF res.st = "raise" THEN Fail("Error") ELSE res

\* What googletrans yields: an exception (not installed, network) or a
\* result whose text is r.raw (r.has = FALSE: no result).
try_googletrans_fallback(text, r) ==
    IF r.exc THEN Fail("googletrans error")
    ELSE IF /\ r.has
            /\ strip(r.raw) # <<>>
            /\ lower(strip(r.raw)) # lower(text)
         THEN Ok(strip(r.raw))
         ELSE Fail("No translation returned")

\* ------------------------------------------------------ cache and file
\* A JSON value held in memory or in the file: a dict (map: key -> value),
\* or a list / string (DOMAIN map: the keys that are elements / substrings
\* of it).
EmptyMap == [k \in {} |-> <<>>]
Dict(m)  == [kind |-> "dict", map |-> m]
Put(m, k, v) == [x \in DOMAIN m \cup {k} |-> IF x = k THEN v ELSE m[x]]

KeyA == get_cache_key(<<"a">>)

\* The states the cache file can be in when a handler is constructed.
InitialFiles ==
    { [kind |-> "absent", map |-> EmptyMap],
      [kind |-> "bad",    map |-> EmptyMap],
      [kind |-> "scalar", map |-> EmptyMap],
      Dict(EmptyMap),
      Dict(Put(EmptyMap, KeyA, <<"v">>)),
      [kind |-> "list", map |-> Put(EmptyMap, KeyA, <<>>)],
      [kind |-> "str",  map |-> EmptyMap] }

\* _load_cache: the file's JSON value if it exists, parses and has a len();
\* {} otherwise.
\* A handler that starts with an empty cache whatever the file holds.
load_cache_fresh(f) == Dict(EmptyMap)

load_cache(f) ==
    IF f.kind \in {"dict", "list", "str"} THEN f ELSE Dict(EmptyMap)

\* _save_cache: the outcome of the write is the environment's: "ok", "fail"
\* (makedirs or open failed, the file is untouched) or "torn" (the write
\* failed after open() truncated the file).  The exception is swallowed.
SaveOutcomes == {"ok", "fail", "torn"}

\* A _save_cache that reports success and writes nothing.
save_cache_lazy(c, f, outcome) == f

save_cache(c, f, outcome) ==
    IF outcome = "ok" THEN c
    ELSE IF outcome = "torn" THEN [kind |-> "bad", map |-> EmptyMap]
    ELSE f

\* key in self.cache
InCache(c, k) == k \in DOMAIN c.map

\* len(self.cache)
CacheLen(c) == Cardinality(DOMAIN c.map)

\* os.path.exists(self.cache_file)
FileExists(f) == f.kind # "absent"

\* --------------------------------------------------------------- state
VARIABLES
    api_endpoints,      \* self.api_endpoints
    cache,              \* self.cache
    file,               \* the cache file
    since_request,      \* time.time() - self.last_request_time, capped at
                        \* min_request_interval
    pc,                 \* per thread: where it is
    call,               \* per thread: the translate_text call in progress
    ret,                \* per thread: what its last call returned
    batch,              \* per thread: the translate_batch call in progress
    prev,               \* the last operation completed on the handler
    obs                 \* what an observer of the handler's traffic has seen

vars == << api_endpoints, cache, file, since_request,
           pc, call, ret, batch, prev, obs >>

\* The frame of a translate_text call: its argument, the trimmed text, the
\* loop position, the time left to sleep, and a log of what the call did:
\* the adapters it invoked (invoked, raised, translation), how often it
\* called _rate_limit (rl) and how its cache write ended (saved).  While
\* the call is inside json.dump the frame holds the entries the dump started
\* to iterate over (snap) and whether the file it writes to has been removed
\* from the directory since it was opened (unlinked).
NoCall  == [arg |-> <<>>, text |-> <<>>, i |-> 0, invoked |-> <<>>,
            raised |-> FALSE, translation |-> <<>>, rl |-> 0, sleep |-> 0,
            saved |-> "none", snap |-> <<>>, unlinked |-> FALSE]
NoRet   == [kind |-> "none", success |-> FALSE, value |-> <<>>,
            label |-> "", n |-> 0, exists |-> FALSE]
NoBatch == [active |-> FALSE, texts |-> <<>>, i |-> 0, results |-> <<>>,
            sleep |-> 0]
NoPrev  == [op |-> "none", arg |-> <<>>, outcome |-> "none", value |-> <<>>]

\* The observer: switched off, it records nothing.  Switched on, it keeps
\* the response the handler's latest provider call ended with (resp), the
\* time since the latest outbound call, capped like since_request
\* (since_call), the statuses the attempts of the latest session request
\* received (attempts), whether that request is still in flight (open), and
\* the time from the last but one return of _rate_limit to the last, capped
\* as well (gap).  Of the operation completed last it keeps, if that was a
\* translate_text call that got its translation from a provider and whose
\* cache write went through, the argument and the translation, and whether
\* the handler has been constructed anew since (kept).
NoResponse == [exc |-> FALSE, status |-> 0, rs |-> 0, has |-> FALSE, raw |-> <<>>]
NoKept == [arg |-> <<>>, value |-> <<>>, restarted |-> FALSE]
NoObs == [on |-> FALSE, resp |-> NoResponse, since_call |-> min_request_interval,
          attempts |-> <<>>, open |-> FALSE, gap |-> min_request_interval,
          kept |-> NoKept]

Returned(success, value, label) ==
    [NoRet EXCEPT !.kind = "ret", !.success = success, !.value = value,
                  !.label = label]
\* An exception leaves the call.
Thrown == [NoRet EXCEPT !.kind = "exc"]

InitState(threads, o) ==
    /\ api_endpoints = Endpoints
    /\ file \in InitialFiles
    /\ cache = load_cache(file)
    /\ since_request = min_request_interval
    /\ pc = [t \in Threads |-> IF t \in threads THEN "idle" ELSE "off"]
    /\ call = [t \in Threads |-> NoCall]
    /\ ret = [t \in Threads |-> NoRet]
    /\ batch = [t \in Threads |-> NoBatch]
    /\ prev = NoPrev
    /\ obs = o

InitWith(threads) == InitState(threads, NoObs)

\* One caller at a time.
Init == InitWith({1})

\* ------------------------------------------------------ translate_text
ErrEmpty  == <<"empty input">>
ErrFailed == <<"all endpoints and fallback unavailable">>

\* A lookup under the key of the text as it was passed in.
tt_lookup_rawkey(c, chinese_text) ==
    LET text      == strip(chinese_text)
        cache_key == get_cache_key(chinese_text)
        frame     == [NoCall EXCEPT !.arg = chinese_text, !.text = text]
    IN  IF InCache(c, cache_key)
        THEN [pc |-> "tt_done", call |-> frame,
              ret |-> IF c.kind = "dict"
                      THEN Returned(TRUE, c.map[cache_key], "cache")
                      ELSE Thrown]
        ELSE [pc |-> "tt_rate", call |-> frame, ret |-> NoRet]

\* A lookup that never finds anything: every call goes to the providers.
tt_lookup_refresh(c, chinese_text) ==
    [pc |-> "tt_rate",
     call |-> [NoCall EXCEPT !.arg = chinese_text, !.text = strip(chinese_text)],
     ret |-> NoRet]

\* Lines 297-306: the trim, the key and the cache lookup.  A lookup that
\* finds the key in a cache that is no dict raises TypeError on
\* self.cache[cache_key], outside any try.
tt_lookup(c, chinese_text) ==
    LET text      == strip(chinese_text)
        cache_key == get_cache_key(text)
        frame     == [NoCall EXCEPT !.arg = chinese_text, !.text = text]
    IN  IF InCache(c, cache_key)
        THEN [pc |-> "tt_done", call |-> frame,
              ret |-> IF c.kind = "dict"
                      THEN Returned(TRUE, c.map[cache_key], "cache")
                      ELSE Thrown]
        ELSE [pc |-> "tt_rate", call |-> frame, ret |-> NoRet]

BlankResult(chinese_text) ==
    [pc |-> "tt_done",
     call |-> [NoCall EXCEPT !.arg = chinese_text, !.text = strip(chinese_text)],
     ret |-> Returned(FALSE, ErrEmpty, "none")]

\* A translate_text whose blank check forgets the whitespace-only texts.
tt_begin_nostrip(c, chinese_text) ==
    IF chinese_text = <<>> THEN BlankResult(chinese_text)
    ELSE tt_lookup(c, chinese_text)

\* Lines 294-306: the blank check, then the lookup.
tt_begin(c, chinese_text) ==
    IF chinese_text = <<>> \/ strip(chinese_text) = <<>>
    THEN BlankResult(chinese_text)
    ELSE tt_lookup(c, chinese_text)

\* A success path that forgets the cache.
store_skip(c, f, cache_key, translation, outcome) ==
    [raised |-> FALSE, cache |-> c, file |-> f, saved |-> "none"]

\* A _save_cache that lets the exception of a failed write out.
store_strict(c, f, cache_key, translation, outcome) ==
    LET c2 == Dict(Put(c.map, cache_key, translation))
    IN  IF c.kind = "dict"
        THEN [raised |-> outcome # "ok", cache |-> c2,
              file |-> save_cache(c2, f, outcome), saved |-> outcome]
        ELSE [raised |-> TRUE, cache |-> c, file |-> f, saved |-> "none"]

\* self.cache[cache_key] = translation; self._save_cache() (lines 321-322
\* and 340-341).  The assignment raises TypeError when the cache is no
\* dict.  saved: how the write ended, "none" when none was attempted.
store(c, f, cache_key, translation, outcome) ==
    IF c.kind = "dict"
    THEN LET c2 == Dict(Put(c.map, cache_key, translation))
         IN  [raised |-> FALSE, cache |-> c2, file |-> save_cache(c2, f, outcome),
              saved |-> outcome]
    ELSE [raised |-> TRUE, cache |-> c, file |-> f, saved |-> "none"]

\* The log entry of one adapter invocation: the adapter and whether it
\* reported success.  Of the latest invocation the frame also keeps whether
\* an exception was raised inside it (raised) and the translation it
\* reported, if any (translation).
Logged(cl, name, r, res) ==
    [cl EXCEPT !.invoked = Append(@, [name |-> name, ok |-> res.st = "ok"]),
               !.raised = r.exc,
               !.translation = IF res.st = "ok" THEN res.value ELSE <<>>]

\* What translate_text does with an adapter's result res (lines 319-332 for
\* an endpoint, 338-350 for the fallback): on success it stores the
\* translation and returns it under label; on a failure, and when storing
\* raises (caught by `except Exception`), it goes on as onfail says.
after_adapter(c, f, cl, name, label, r, res, outcome, onfail) ==
    LET st  == store(c, f, get_cache_key(cl.text), res.value, outcome)
        cl2 == Logged(cl, name, r, res)
    IN  IF res.st = "ok" /\ ~st.raised
        THEN [pc |-> "tt_done", call |-> [cl2 EXCEPT !.saved = st.saved],
              cache |-> st.cache, file |-> st.file,
              ret |-> Returned(TRUE, res.value, label)]
        ELSE IF res.st = "ok"
        THEN [pc |-> onfail.pc, call |-> [cl2 EXCEPT !.i = onfail.i, !.saved = st.saved],
              cache |-> st.cache, file |-> st.file, ret |-> onfail.ret]
        ELSE [pc |-> onfail.pc, call |-> [cl2 EXCEPT !.i = onfail.i],
              cache |-> c, file |-> f, ret |-> onfail.ret]

\* A loop that throttles before every endpoint.
NextEndpoint_throttled(cl, eps) ==
    [pc |-> "tt_rate", i |-> cl.i + 1, ret |-> NoRet]

\* The loop goes on with the next endpoint, or leaves for the fallback.
NextEndpoint(cl, eps) ==
    [pc |-> IF cl.i + 1 > Len(eps) THEN "tt_fallback" ELSE "tt_sweep",
     i |-> cl.i + 1, ret |-> NoRet]

\* A sweep without its exception handlers: what is raised inside an adapter
\* leaves translate_text.
sweep_step_unguarded(c, f, cl, eps, r, outcome) ==
    IF r.exc
    THEN [pc |-> "tt_done", call |-> Logged(cl, eps[cl.i].description, r, Raised),
          cache |-> c, file |-> f, ret |-> Thrown]
    ELSE after_adapter(c, f, cl, eps[cl.i].description, eps[cl.i].description, r,
                       try_endpoint(cl.text, eps[cl.i], r), outcome,
                       NextEndpoint(cl, eps))

\* Lines 309-332: one pass of the loop over self.api_endpoints, for the
\* endpoint at position cl.i, whose session yields r; a cache write ends as
\* outcome.
sweep_step(c, f, cl, eps, r, outcome) ==
    after_adapter(c, f, cl, eps[cl.i].description, eps[cl.i].description, r,
                  try_endpoint(cl.text, eps[cl.i], r), outcome,
                  NextEndpoint(cl, eps))

FinalFailure(cl) ==
    [pc |-> "tt_done", i |-> cl.i, ret |-> Returned(FALSE, ErrFailed, "failed")]

\* A fallback that remembers the failure in the cache.
fallback_step_negcache(c, f, cl, r, outcome) ==
    LET s == after_adapter(c, f, cl, "googletrans", "googletrans-fallback", r,
                           try_googletrans_fallback(cl.text, r), outcome,
                           FinalFailure(cl))
    IN  IF s.ret.label = "failed" /\ c.kind = "dict"
        THEN [s EXCEPT !.cache = Dict(Put(c.map, get_cache_key(cl.text), ErrFailed))]
        ELSE s

\* A fallback that returns under the name of its library.
fallback_step_relabelled(c, f, cl, r, outcome) ==
    after_adapter(c, f, cl, "googletrans", "googletrans", r,
                  try_googletrans_fallback(cl.text, r), outcome, FinalFailure(cl))

\* Lines 334-350: the googletrans fallback and the final failure.
fallback_step(c, f, cl, r, outcome) ==
    after_adapter(c, f, cl, "googletrans", "googletrans-fallback", r,
                  try_googletrans_fallback(cl.text, r), outcome, FinalFailure(cl))

\* The observer sees a provider call end with r.
Called(o, r) == IF o.on THEN [o EXCEPT !.resp = r, !.since_call = 0] ELSE o

\* A translate_text that passes the rate limiter before it looks into the
\* cache.
TranslateText_throttled(t, texts) ==
    /\ pc[t] = "idle"
    /\ \E chinese_text \in texts :
         \E b \in {tt_begin(cache, chinese_text)} :
             /\ pc' = [pc EXCEPT ![t] = b.pc]
             /\ call' = [call EXCEPT ![t] = b.call]
             /\ ret' = [ret EXCEPT ![t] = b.ret]
             /\ since_request' = IF b.ret.label = "cache" THEN 0 ELSE since_request
    /\ UNCHANGED << api_endpoints, cache, file, batch, prev, obs >>

\* A caller invokes translate_text(chinese_text).
TranslateText(t, texts) ==
    /\ pc[t] = "idle"
    /\ \E chinese_text \in texts :
         \E b \in {tt_begin(cache, chinese_text)} :
             /\ pc' = [pc EXCEPT ![t] = b.pc]
             /\ call' = [call EXCEPT ![t] = b.call]
             /\ ret' = [ret EXCEPT ![t] = b.ret]
    /\ UNCHANGED << api_endpoints, cache, file, since_request, batch, prev, obs >>

\* A _rate_limit that never sleeps.
RateLimit_nosleep(t) ==
    /\ pc[t] = "tt_rate"
    /\ call' = [call EXCEPT ![t].rl = @ + 1, ![t].sleep = 0]
    /\ pc' = [pc EXCEPT ![t] = "tt_sleep"]
    /\ UNCHANGED << api_endpoints, cache, file, since_request, ret, batch, prev, obs >>

\* _rate_limit, lines 158-163: read the clock and last_request_time and
\* decide how long to sleep.
RateLimit(t) ==
    /\ pc[t] = "tt_rate"
    /\ LET elapsed    == since_request
           sleep_time == IF elapsed < min_request_interval
                         THEN min_request_interval - elapsed ELSE 0
       IN  call' = [call EXCEPT ![t].rl = @ + 1, ![t].sleep = sleep_time]
    /\ pc' = [pc EXCEPT ![t] = "tt_sleep"]
    /\ UNCHANGED << api_endpoints, cache, file, since_request, ret, batch, prev, obs >>

\* The observer sees _rate_limit return.
Paced(o, elapsed) == IF o.on THEN [o EXCEPT !.gap = elapsed] ELSE o

\* A _rate_limit whose sleep is cut short.
RateLimitWake_early(t) ==
    /\ pc[t] = "tt_sleep"
    /\ since_request' = 0
    /\ call' = [call EXCEPT ![t].i = 1, ![t].sleep = 0]
    /\ pc' = [pc EXCEPT ![t] = IF Len(api_endpoints) = 0 THEN "tt_fallback" ELSE "tt_sweep"]
    /\ obs' = Paced(obs, since_request)
    /\ UNCHANGED << api_endpoints, cache, file, ret, batch, prev >>

\* _rate_limit, line 165, once the sleep (if any) is over.
RateLimitWake(t) ==
    /\ pc[t] = "tt_sleep"
    /\ call[t].sleep = 0
    /\ since_request' = 0
    /\ call' = [call EXCEPT ![t].i = 1]
    /\ pc' = [pc EXCEPT ![t] = IF Len(api_endpoints) = 0 THEN "tt_fallback" ELSE "tt_sweep"]
    /\ obs' = Paced(obs, since_request)
    /\ UNCHANGED << api_endpoints, cache, file, ret, batch, prev >>

\* A sweep that learns: the endpoint that succeeded is tried first from
\* then on.
TryEndpoint_promoting(t, responses, outcomes) ==
    /\ pc[t] = "tt_sweep"
    /\ \E r \in responses, outcome \in outcomes :
         \E s \in {sweep_step(cache, file, call[t], api_endpoints, r, outcome)} :
             /\ pc' = [pc EXCEPT ![t] = s.pc]
             /\ call' = [call EXCEPT ![t] = s.call]
             /\ ret' = [ret EXCEPT ![t] = s.ret]
             /\ cache' = s.cache
             /\ file' = s.file
             /\ obs' = Called(obs, r)
             /\ api_endpoints' =
                    LET eps == api_endpoints
                        j   == call[t].i
                    IN  IF s.ret.success
                        THEN <<eps[j]>> \o [k \in 1..(Len(eps) - 1) |->
                                              IF k < j THEN eps[k] ELSE eps[k + 1]]
                        ELSE eps
    /\ UNCHANGED << since_request, batch, prev >>

TryEndpoint(t, responses, outcomes) ==
    /\ pc[t] = "tt_sweep"
    /\ \E r \in responses, outcome \in outcomes :
         \E s \in {sweep_step(cache, file, call[t], api_endpoints, r, outcome)} :
             /\ pc' = [pc EXCEPT ![t] = s.pc]
             /\ call' = [call EXCEPT ![t] = s.call]
             /\ ret' = [ret EXCEPT ![t] = s.ret]
             /\ cache' = s.cache
             /\ file' = s.file
             /\ obs' = Called(obs, r)
    /\ UNCHANGED << api_endpoints, since_request, batch, prev >>

TryFallback(t, responses, outcomes) ==
    /\ pc[t] = "tt_fallback"
    /\ \E r \in responses, outcome \in outcomes :
         \E s \in {fallback_step(cache, file, call[t], r, outcome)} :
             /\ pc' = [pc EXCEPT ![t] = s.pc]
             /\ call' = [call EXCEPT ![t] = s.call]
             /\ ret' = [ret EXCEPT ![t] = s.ret]
             /\ cache' = s.cache
             /\ file' = s.file
             /\ obs' = Called(obs, r)
    /\ UNCHANGED << api_endpoints, since_request, batch, prev >>

\* ------------------------------------------------- the retrying session
\* Lines 94-106: every request of self.session goes through
\* Retry(total=self.max_retries, status_forcelist=[429, 500, 502, 503, 504],
\* allowed_methods=["GET", "POST"]).
status_forcelist == {429, 500, 502, 503, 504}

\* The statuses an attempt may receive.
AttemptStatuses == {200, 400, 404, 429, 503}

\* Retry.is_retry: the adapters send GET and POST only, both allowed.
is_retry_any_error(status_code) == status_code >= 400

\* A session without a retry strategy.
is_retry_never(status_code) == FALSE

is_retry(status_code) == status_code \in status_forcelist

\* Retry.is_exhausted, once Retry.increment has taken one off total.
is_exhausted_at_zero(total) == total <= 0

is_exhausted(total) == total < 0

\* What the session hands to the adapter when the retries are used up: it
\* raises RetryError.
RetriesExhausted == [NoResponse EXCEPT !.exc = TRUE]

\* The bodies a provider sends with a status of 200.
Bodies == { r \in Responses : ~r.exc /\ r.status = 200 }

\* A response with another status.
ErrorResponse(status_code) == [NoResponse EXCEPT !.status = status_code]

\* The observer sees an attempt of a session request receive status_code;
\* the request goes on (open) or ends.
Attempted(o, status_code, open) ==
    IF o.on
    THEN [o EXCEPT !.attempts = (IF o.open THEN @ ELSE <<>>) \o <<status_code>>,
                   !.open = open,
                   !.since_call = 0]
    ELSE o

\* One attempt of the request self.session.get / self.session.post makes
\* for the endpoint at position call[t].i.  A status of the forcelist is
\* retried (after the backoff: time may pass between two attempts) until
\* the retries are used up; any other response goes to the adapter, and
\* translate_text goes on as in TryEndpoint.
SessionAttempt(t, statuses, bodies) ==
    /\ pc[t] = "tt_sweep"
    /\ \E status_code \in statuses :
         LET failed == IF obs.open THEN Len(obs.attempts) ELSE 0
             total  == max_retries - failed - 1
         IN  IF is_retry(status_code) /\ ~is_exhausted(total)
             THEN /\ obs' = Attempted(obs, status_code, TRUE)
                  /\ UNCHANGED << pc, call, ret, cache, file >>
             ELSE \E r \in (IF is_retry(status_code) THEN {RetriesExhausted}
                             ELSE IF status_code = 200 THEN bodies
                             ELSE {ErrorResponse(status_code)}) :
                    \E s \in {sweep_step(cache, file, call[t], api_endpoints, r, "ok")} :
                        /\ pc' = [pc EXCEPT ![t] = s.pc]
                        /\ call' = [call EXCEPT ![t] = s.call]
                        /\ ret' = [ret EXCEPT ![t] = s.ret]
                        /\ cache' = s.cache
                        /\ file' = s.file
                        /\ obs' = [Attempted(obs, status_code, FALSE) EXCEPT !.resp = r]
    /\ UNCHANGED << api_endpoints, since_request, batch, prev >>

\* What the handler's last completed operation was: a translate_text call
\* that raised ("exc"), returned a blank-input failure ("none"), a cache hit
\* ("cache"), a provider's translation ("provider") or the final failure
\* ("failed").
Outcome(r) ==
    IF r.kind = "exc" THEN "exc"
    ELSE IF r.label \in {"none", "cache", "failed"} THEN r.label
    ELSE "provider"

Summary(op, cl, r) ==
    [op |-> op, arg |-> cl.arg, outcome |-> Outcome(r),
     value |-> IF r.success THEN r.value ELSE <<>>]

\* The observer sees an operation complete: a translate_text call with
\* frame cl and result r, or (NoCall, NoRet) for any other operation.
Completed(o, cl, r) ==
    IF o.on
    THEN [o EXCEPT !.kept =
             IF r.kind = "ret" /\ r.success /\ r.label # "cache" /\ cl.saved = "ok"
             THEN [arg |-> cl.arg, value |-> r.value, restarted |-> FALSE]
             ELSE NoKept]
    ELSE o

\* The observer sees the handler constructed anew.
Restarted(o) ==
    IF o.on /\ o.kept # NoKept THEN [o EXCEPT !.kept.restarted = TRUE] ELSE o

\* translate_text hands its result (or its exception) to a direct caller.
TranslateReturn(t) ==
    /\ pc[t] = "tt_done"
    /\ ~batch[t].active
    /\ pc' = [pc EXCEPT ![t] = "idle"]
    /\ prev' = Summary("translate_text", call[t], ret[t])
    /\ call' = [call EXCEPT ![t] = NoCall]
    /\ ret' = [ret EXCEPT ![t] = NoRet]
    /\ obs' = Completed(obs, call[t], ret[t])
    /\ UNCHANGED << api_endpoints, cache, file, since_request, batch >>

Min(a, b) == IF a < b THEN a ELSE b
Max(a, b) == IF a < b THEN b ELSE a

\* Time passes: one tick for the rate limiter's clock and for every sleeper.
Tick ==
    /\ since_request' = Min(since_request + 1, min_request_interval)
    /\ call' = [t \in Threads |-> [call[t] EXCEPT !.sleep = Max(@ - 1, 0)]]
    /\ batch' = [t \in Threads |-> [batch[t] EXCEPT !.sleep = Max(@ - 1, 0)]]
    /\ obs' = IF obs.on
              THEN [obs EXCEPT !.since_call = Min(@ + 1, min_request_interval)]
              ELSE obs
    /\ UNCHANGED << api_endpoints, cache, file, pc, ret, prev >>

\* ------------------------------------- clear_cache and get_cache_stats
\* os.remove(self.cache_file) succeeds or fails; a failure is swallowed.
RemoveOutcomes == {"ok", "fail"}

\* Lines 441-451.  len() and .clear() work on a dict and on a list; a str
\* has no .clear(), and the AttributeError leaves clear_cache before the
\* file is touched.
clear_cache(c, f, rm) ==
    IF c.kind = "str"
    THEN [raised |-> TRUE, cache |-> c, file |-> f, cache_size |-> 0]
    ELSE [raised |-> FALSE,
          cache |-> [c EXCEPT !.map = EmptyMap],
          file |-> IF FileExists(f) /\ rm = "ok"
                   THEN [kind |-> "absent", map |-> EmptyMap] ELSE f,
          cache_size |-> CacheLen(c)]

\* Lines 460-468.
get_cache_stats(c, f) == [total_entries |-> CacheLen(c), cache_file_exists |-> FileExists(f)]

ClearCache(t) ==
    /\ pc[t] = "idle"
    /\ \E rm \in RemoveOutcomes :
         \E s \in {clear_cache(cache, file, rm)} :
             /\ cache' = s.cache
             /\ file' = s.file
             /\ ret' = [ret EXCEPT ![t] =
                          IF s.raised THEN Thrown
                          ELSE [NoRet EXCEPT !.kind = "ret", !.n = s.cache_size]]
    /\ pc' = [pc EXCEPT ![t] = "cc_done"]
    /\ UNCHANGED << api_endpoints, since_request, call, batch, prev, obs >>

ClearReturn(t) ==
    /\ pc[t] = "cc_done"
    /\ pc' = [pc EXCEPT ![t] = "idle"]
    /\ prev' = [NoPrev EXCEPT !.op = "clear_cache",
                              !.outcome = IF ret[t].kind = "exc" THEN "exc" ELSE "ret"]
    /\ ret' = [ret EXCEPT ![t] = NoRet]
    /\ obs' = Completed(obs, NoCall, NoRet)
    /\ UNCHANGED << api_endpoints, cache, file, since_request, call, batch >>

GetCacheStats(t) ==
    /\ pc[t] = "idle"
    /\ \E s \in {get_cache_stats(cache, file)} :
         ret' = [ret EXCEPT ![t] = [NoRet EXCEPT !.kind = "ret", !.n = s.total_entries,
                                                 !.exists = s.cache_file_exists]]
    /\ pc' = [pc EXCEPT ![t] = "gs_done"]
    /\ UNCHANGED << api_endpoints, cache, file, since_request, call, batch, prev, obs >>

StatsReturn(t) ==
    /\ pc[t] = "gs_done"
    /\ pc' = [pc EXCEPT ![t] = "idle"]
    /\ prev' = [NoPrev EXCEPT !.op = "get_cache_stats", !.outcome = "ret"]
    /\ ret' = [ret EXCEPT ![t] = NoRet]
    /\ obs' = Completed(obs, NoCall, NoRet)
    /\ UNCHANGED << api_endpoints, cache, file, since_request, call, batch >>

\* __init__, lines 43-85: a new handler on the same cache directory takes
\* the place of the old one (the process restarts).
Construct ==
    /\ \A t \in Threads : pc[t] \in {"idle", "off"}
    /\ api_endpoints' = Endpoints
    /\ cache' = load_cache(file)
    /\ since_request' = min_request_interval
    /\ prev' = [NoPrev EXCEPT !.op = "construct"]
    /\ obs' = Restarted(obs)
    /\ UNCHANGED << file, pc, call, ret, batch >>

\* ----------------------------------------------------- translate_batch
ErrBlankItem == <<"blank item">>

\* The input lists of translate_batch: every list of at most MaxBatch texts,
\* among them empty, whitespace-only, padded and plain ones.
BatchTexts == { <<>>, <<" ">>, <<" ", "a", " ">>, <<"A">> }

RECURSIVE ListsUpTo(_)
ListsUpTo(n) ==
    IF n = 0 THEN { <<>> }
    ELSE ListsUpTo(n - 1)
         \cup { Append(l, x) : l \in { m \in ListsUpTo(n - 1) : Len(m) = n - 1 },
                               x \in BatchTexts }

BatchInputs == ListsUpTo(MaxBatch)

\* Lines 372-381: a blank item is answered on the spot.
batch_blank(b, sr) ==
    [pc |-> "b_loop",
     batch |-> [b EXCEPT
         !.results = Append(@, [index |-> b.i - 1,
                                original |-> b.texts[b.i],
                                success |-> FALSE,
                                translation |-> <<>>,
                                error |-> ErrBlankItem,
                                endpoint |-> "none"]),
         !.i = b.i + 1],
     call |-> NoCall, ret |-> NoRet, since_request |-> sr]

\* Line 383: translate_text is called with the item.
batch_call(b, c, sr) ==
    LET bg == tt_begin(c, b.texts[b.i])
    IN  [pc |-> bg.pc, batch |-> b, call |-> bg.call, ret |-> bg.ret,
         since_request |-> sr]

\* Line 399: the loop is over.
batch_end(b, sr) ==
    [pc |-> "b_done", batch |-> b, call |-> NoCall,
     ret |-> [NoRet EXCEPT !.kind = "ret"], since_request |-> sr]

\* A loop without the blank check: every item goes to translate_text.
batch_next_unchecked(b, c, sr) ==
    IF b.i > Len(b.texts) THEN batch_end(b, sr) ELSE batch_call(b, c, sr)

\* Lines 371-383, the head of the loop at position b.i (enumerate's index
\* is b.i - 1): the loop ends, or a blank item is answered on the spot, or
\* translate_text is called.
batch_next(b, c, sr) ==
    IF b.i > Len(b.texts) THEN batch_end(b, sr)
    ELSE IF strip(b.texts[b.i]) = <<>> THEN batch_blank(b, sr)
    ELSE batch_call(b, c, sr)

\* A loop that files the result string under the wrong key.
batch_append_misfiled(b, r) ==
    IF r.kind = "exc"
    THEN [pc |-> "b_done", batch |-> b, ret |-> Thrown]
    ELSE LET text == b.texts[b.i]
             b2 == [b EXCEPT !.results =
                       Append(@, [index |-> b.i - 1,
                                  original |-> strip(text),
                                  success |-> r.success,
                                  translation |-> IF ~r.success THEN r.value ELSE <<>>,
                                  error |-> IF r.success THEN r.value ELSE <<>>,
                                  endpoint |-> r.label])]
         IN  IF b.i - 1 < Len(b.texts) - 1
             THEN [pc |-> "b_sleep", batch |-> [b2 EXCEPT !.sleep = batch_delay],
                   ret |-> NoRet]
             ELSE [pc |-> "b_loop", batch |-> [b2 EXCEPT !.i = b.i + 1], ret |-> NoRet]

\* A loop that sleeps after every item, the last included.
batch_append_eager(b, r) ==
    IF r.kind = "exc"
    THEN [pc |-> "b_done", batch |-> b, ret |-> Thrown]
    ELSE LET text == b.texts[b.i]
             b2 == [b EXCEPT !.results =
                       Append(@, [index |-> b.i - 1,
                                  original |-> strip(text),
                                  success |-> r.success,
                                  translation |-> IF r.success THEN r.value ELSE <<>>,
                                  error |-> IF ~r.success THEN r.value ELSE <<>>,
                                  endpoint |-> r.label])]
         IN  IF TRUE
             THEN [pc |-> "b_sleep", batch |-> [b2 EXCEPT !.sleep = batch_delay],
                   ret |-> NoRet]
             ELSE [pc |-> "b_loop", batch |-> [b2 EXCEPT !.i = b.i + 1], ret |-> NoRet]

\* A loop that puts the result string into both fields.
batch_append_echo(b, r) ==
    IF r.kind = "exc"
    THEN [pc |-> "b_done", batch |-> b, ret |-> Thrown]
    ELSE LET text == b.texts[b.i]
             b2 == [b EXCEPT !.results =
                       Append(@, [index |-> b.i - 1,
                                  original |-> strip(text),
                                  success |-> r.success,
                                  translation |-> r.value,
                                  error |-> r.value,
                                  endpoint |-> r.label])]
         IN  IF b.i - 1 < Len(b.texts) - 1
             THEN [pc |-> "b_sleep", batch |-> [b2 EXCEPT !.sleep = batch_delay],
                   ret |-> NoRet]
             ELSE [pc |-> "b_loop", batch |-> [b2 EXCEPT !.i = b.i + 1], ret |-> NoRet]

\* Lines 383-396, once translate_text has returned r: the item is appended
\* and, unless it is the last of the list, the loop sleeps 0.1 s.  An
\* exception of translate_text leaves translate_batch.
batch_append(b, r) ==
    IF r.kind = "exc"
    THEN [pc |-> "b_done", batch |-> b, ret |-> Thrown]
    ELSE LET text == b.texts[b.i]
             b2 == [b EXCEPT !.results =
                       Append(@, [index |-> b.i - 1,
                                  original |-> strip(text),
                                  success |-> r.success,
                                  translation |-> IF r.success THEN r.value ELSE <<>>,
                                  error |-> IF ~r.success THEN r.value ELSE <<>>,
                                  endpoint |-> r.label])]
         IN  IF b.i - 1 < Len(b.texts) - 1
             THEN [pc |-> "b_sleep", batch |-> [b2 EXCEPT !.sleep = batch_delay],
                   ret |-> NoRet]
             ELSE [pc |-> "b_loop", batch |-> [b2 EXCEPT !.i = b.i + 1], ret |-> NoRet]

\* A caller invokes translate_batch(text_list).
TranslateBatch(t, inputs) ==
    /\ pc[t] = "idle"
    /\ \E text_list \in inputs :
         batch' = [batch EXCEPT ![t] = [NoBatch EXCEPT !.active = TRUE,
                                                       !.texts = text_list, !.i = 1]]
    /\ pc' = [pc EXCEPT ![t] = "b_loop"]
    /\ UNCHANGED << api_endpoints, cache, file, since_request, call, ret, prev, obs >>

BatchNext(t) ==
    /\ pc[t] = "b_loop"
    /\ \E s \in {batch_next(batch[t], cache, since_request)} :
         /\ pc' = [pc EXCEPT ![t] = s.pc]
         /\ batch' = [batch EXCEPT ![t] = s.batch]
         /\ call' = [call EXCEPT ![t] = s.call]
         /\ ret' = [ret EXCEPT ![t] = s.ret]
         /\ since_request' = s.since_request
    /\ UNCHANGED << api_endpoints, cache, file, prev, obs >>

\* translate_text hands its result (or its exception) to translate_batch.
BatchAppend(t) ==
    /\ pc[t] = "tt_done"
    /\ batch[t].active
    /\ \E s \in {batch_append(batch[t], ret[t])} :
         /\ pc' = [pc EXCEPT ![t] = s.pc]
         /\ batch' = [batch EXCEPT ![t] = s.batch]
         /\ ret' = [ret EXCEPT ![t] = s.ret]
    /\ prev' = Summary("translate_text", call[t], ret[t])
    /\ call' = [call EXCEPT ![t] = NoCall]
    /\ obs' = Completed(obs, call[t], ret[t])
    /\ UNCHANGED << api_endpoints, cache, file, since_request >>

\* The sleep between two items is over.
BatchWake(t) ==
    /\ pc[t] = "b_sleep"
    /\ batch[t].sleep = 0
    /\ batch' = [batch EXCEPT ![t].i = @ + 1]
    /\ pc' = [pc EXCEPT ![t] = "b_loop"]
    /\ UNCHANGED << api_endpoints, cache, file, since_request, call, ret, prev, obs >>

BatchReturn(t) ==
    /\ pc[t] = "b_done"
    /\ pc' = [pc EXCEPT ![t] = "idle"]
    /\ batch' = [batch EXCEPT ![t] = NoBatch]
    /\ ret' = [ret EXCEPT ![t] = NoRet]
    /\ prev' = [NoPrev EXCEPT !.op = "translate_batch",
                              !.outcome = IF ret[t].kind = "exc" THEN "exc" ELSE "ret"]
    /\ UNCHANGED << api_endpoints, cache, file, since_request, call, obs >>

\* ------------------------------------------------ concurrent callers
\* The class has no lock, and the handler is a process-wide singleton
\* (get_translation_handler, lines 471-485) that the event handlers of the
\* UI call from different threads.  With more than one caller the steps of
\* translate_text and clear_cache interleave statement by statement: the
\* adapter call, the assignment to self.cache, open() and json.dump() of
\* _save_cache, and self.cache.clear() and os.remove() of clear_cache.

\* The label a successful call returns: the endpoint's description inside
\* the loop (line 325), "googletrans-fallback" after it (line 343).
SuccessLabel(cl, eps) ==
    IF Len(cl.invoked) > Len(eps) THEN "googletrans-fallback"
    ELSE eps[cl.i].description

\* Where translate_text goes on when a statement of the success path raises
\* (lines 330-332 in the loop, 344-350 after it).
OnRaise(cl, eps) ==
    IF Len(cl.invoked) > Len(eps) THEN FinalFailure(cl) ELSE NextEndpoint(cl, eps)

\* Lines 317-319 and 326-332: the adapter call of one pass of the loop.  A
\* success leaves the call in front of the assignment of line 321.
ConcTryEndpoint(t, responses) ==
    /\ pc[t] = "tt_sweep"
    /\ \E r \in responses :
         \E s \in {sweep_step(cache, file, call[t], api_endpoints, r, "ok")} :
             IF try_endpoint(call[t].text, api_endpoints[call[t].i], r).st = "ok"
             THEN /\ pc' = [pc EXCEPT ![t] = "tt_assign"]
                  /\ call' = [call EXCEPT ![t] =
                                Logged(call[t], api_endpoints[call[t].i].description, r,
                                       try_endpoint(call[t].text, api_endpoints[call[t].i], r))]
                  /\ ret' = ret
             ELSE /\ pc' = [pc EXCEPT ![t] = s.pc]
                  /\ call' = [call EXCEPT ![t] = s.call]
                  /\ ret' = [ret EXCEPT ![t] = s.ret]
    /\ UNCHANGED << api_endpoints, cache, file, since_request, batch, prev, obs >>

\* Lines 337-338 and 344-350: the fallback's adapter call.
ConcTryFallback(t, responses) ==
    /\ pc[t] = "tt_fallback"
    /\ \E r \in responses :
         \E s \in {fallback_step(cache, file, call[t], r, "ok")} :
             IF try_googletrans_fallback(call[t].text, r).st = "ok"
             THEN /\ pc' = [pc EXCEPT ![t] = "tt_assign"]
                  /\ call' = [call EXCEPT ![t] =
                                Logged(call[t], "googletrans", r,
                                       try_googletrans_fallback(call[t].text, r))]
                  /\ ret' = ret
             ELSE /\ pc' = [pc EXCEPT ![t] = s.pc]
                  /\ call' = [call EXCEPT ![t] = s.call]
                  /\ ret' = [ret EXCEPT ![t] = s.ret]
    /\ UNCHANGED << api_endpoints, cache, file, since_request, batch, prev, obs >>

\* Lines 321 and 340: self.cache[cache_key] = translation, one dict
\* operation; TypeError when the cache is no dict.
ConcAssign(t) ==
    /\ pc[t] = "tt_assign"
    /\ IF cache.kind = "dict"
       THEN /\ cache' = Dict(Put(cache.map, get_cache_key(call[t].text),
                                 call[t].translation))
            /\ pc' = [pc EXCEPT ![t] = "tt_open"]
            /\ UNCHANGED << call, ret >>
       ELSE \E s \in {OnRaise(call[t], api_endpoints)} :
            /\ cache' = cache
            /\ pc' = [pc EXCEPT ![t] = s.pc]
            /\ call' = [call EXCEPT ![t].i = s.i]
            /\ ret' = [ret EXCEPT ![t] = s.ret]
    /\ UNCHANGED << api_endpoints, file, since_request, batch, prev, obs >>

\* Lines 137-139: open(self.cache_file, 'w') creates or truncates the file,
\* and json.dump starts to iterate over self.cache.
ConcOpen(t) ==
    /\ pc[t] = "tt_open"
    /\ file' = [kind |-> "bad", map |-> EmptyMap]
    /\ call' = [call EXCEPT ![t].snap = cache.map, ![t].unlinked = FALSE]
    /\ pc' = [pc EXCEPT ![t] = "tt_dump"]
    /\ UNCHANGED << api_endpoints, cache, since_request, ret, batch, prev, obs >>

\* What a writer's close() leaves in a file f that it opened before and
\* that it fills with the entries m from offset 0: m, unless another writer
\* has put a longer text there in the meantime, whose tail stays behind m.
Written(f, m) ==
    IF f.kind = "dict" /\ Cardinality(DOMAIN f.map) > Cardinality(DOMAIN m)
    THEN [kind |-> "bad", map |-> EmptyMap]
    ELSE Dict(m)

\* How json.dump ends when self.cache was changed while it iterated: it
\* had got through before the change, or the iteration raises RuntimeError
\* and the with block closes the file on what was written so far.
DumpOutcomes == {"ok", "torn"}

\* Lines 139-142 and 324-325 (342-343): json.dump ends, the file is closed,
\* _save_cache swallows an exception, and translate_text returns success.
\* A file removed while it was open takes the text with it.
ConcDumpEnd(t) ==
    /\ pc[t] = "tt_dump"
    /\ \E outcome \in IF cache.map = call[t].snap THEN {"ok"} ELSE DumpOutcomes :
         /\ file' = IF call[t].unlinked THEN file
                    ELSE IF outcome = "ok" THEN Written(file, call[t].snap)
                    ELSE [kind |-> "bad", map |-> EmptyMap]
         /\ call' = [call EXCEPT ![t].saved = outcome]
    /\ ret' = [ret EXCEPT ![t] = Returned(TRUE, call[t].translation,
                                          SuccessLabel(call[t], api_endpoints))]
    /\ pc' = [pc EXCEPT ![t] = "tt_done"]
    /\ UNCHANGED << api_endpoints, cache, since_request, batch, prev, obs >>

\* Lines 441-442: len(self.cache) and self.cache.clear().
ConcClear(t) ==
    /\ pc[t] = "idle"
    /\ IF cache.kind = "str"
       THEN /\ pc' = [pc EXCEPT ![t] = "cc_done"]
            /\ ret' = [ret EXCEPT ![t] = Thrown]
            /\ cache' = cache
       ELSE /\ pc' = [pc EXCEPT ![t] = "cc_remove"]
            /\ ret' = [ret EXCEPT ![t] = [NoRet EXCEPT !.kind = "ret",
                                                       !.n = CacheLen(cache)]]
            /\ cache' = [cache EXCEPT !.map = EmptyMap]
    /\ UNCHANGED << api_endpoints, file, since_request, call, batch, prev, obs >>

\* Lines 444-451: os.remove(self.cache_file) if the file exists.  A writer
\* that has the file open keeps writing to a file without a name.
ConcRemove(t) ==
    /\ pc[t] = "cc_remove"
    /\ IF FileExists(file)
       THEN /\ file' = [kind |-> "absent", map |-> EmptyMap]
            /\ call' = [u \in Threads |->
                          IF pc[u] = "tt_dump" THEN [call[u] EXCEPT !.unlinked = TRUE]
                          ELSE call[u]]
       ELSE UNCHANGED << file, call >>
    /\ pc' = [pc EXCEPT ![t] = "cc_done"]
    /\ UNCHANGED << api_endpoints, cache, since_request, ret, batch, prev, obs >>

\* ---------------------------------------------------- specifications
\* One caller; single calls, the cache's administration and restarts.
Next ==
    \/ \E t \in Threads : TranslateText(t, InputTexts)
    \/ \E t \in Threads : RateLimit(t)
    \/ \E t \in Threads : RateLimitWake(t)
    \/ \E t \in Threads : TryEndpoint(t, Responses, SaveOutcomes)
    \/ \E t \in Threads : TryFallback(t, Responses, SaveOutcomes)
    \/ \E t \in Threads : TranslateReturn(t)
    \/ \E t \in Threads : ClearCache(t)
    \/ \E t \in Threads : ClearReturn(t)
    \/ \E t \in Threads : GetCacheStats(t)
    \/ \E t \in Threads : StatsReturn(t)
    \/ Construct
    \/ Tick

Spec == Init /\ [][Next]_vars

\* One caller of translate_batch.  The providers either fail or translate,
\* cache writes succeed, and the cache file is absent, a mapping or a list
\* at the start.
BatchResponses ==
    { r \in Responses : r.exc \/ (r.status = 200 /\ r.rs = 200 /\ r.raw = <<"v", " ">>) }

BatchFiles == { f \in InitialFiles : f.kind \in {"absent", "list"} \/ f.map # EmptyMap }

InitBatch ==
    /\ InitWith({1})
    /\ file \in BatchFiles

NextBatch ==
    \/ \E t \in Threads : TranslateBatch(t, BatchInputs)
    \/ \E t \in Threads : BatchNext(t)
    \/ \E t \in Threads : BatchAppend(t)
    \/ \E t \in Threads : BatchWake(t)
    \/ \E t \in Threads : BatchReturn(t)
    \/ \E t \in Threads : RateLimit(t)
    \/ \E t \in Threads : RateLimitWake(t)
    \/ \E t \in Threads : TryEndpoint(t, BatchResponses, {"ok"})
    \/ \E t \in Threads : TryFallback(t, BatchResponses, {"ok"})
    \/ Tick

SpecBatch == InitBatch /\ [][NextBatch]_vars

\* The handler under observation, its session taken attempt by attempt.
NetTexts == { <<"a">>, <<" ">> }

NetResponses ==
    { r \in Responses : r.exc \/ (r.status = 200 /\ r.rs = 200 /\ r.has
                                    /\ r.raw \in {<<"v", " ">>, <<"A">>}) }

InitNet ==
    /\ InitState({1}, [NoObs EXCEPT !.on = TRUE])
    /\ file.kind = "absent"

NextNet ==
    \/ \E t \in Threads : TranslateText(t, NetTexts)
    \/ \E t \in Threads : RateLimit(t)
    \/ \E t \in Threads : RateLimitWake(t)
    \/ \E t \in Threads : SessionAttempt(t, AttemptStatuses, NetResponses \cap Bodies)
    \/ \E t \in Threads : TryFallback(t, NetResponses, {"ok"})
    \/ \E t \in Threads : TranslateReturn(t)
    \/ Tick

SpecNet == InitNet /\ [][NextNet]_vars

\* The thread inside self.session.get / post keeps running: the session
\* makes its next attempt once the backoff is over.
SpecNetFair ==
    SpecNet /\ WF_vars(\E t \in Threads :
                          SessionAttempt(t, AttemptStatuses, NetResponses \cap Bodies))

\* The handler under observation, restarted between calls.
RestartTexts == { <<"a">>, <<" ", "a", " ">>, <<"A">> }

RestartResponses ==
    { r \in Responses : r.exc \/ (r.status = 200 /\ r.rs = 200 /\ r.raw = <<"v", " ">>) }

InitRestart == InitState({1}, [NoObs EXCEPT !.on = TRUE])

NextRestart ==
    \/ \E t \in Threads : TranslateText(t, RestartTexts)
    \/ \E t \in Threads : RateLimit(t)
    \/ \E t \in Threads : RateLimitWake(t)
    \/ \E t \in Threads : TryEndpoint(t, RestartResponses, SaveOutcomes)
    \/ \E t \in Threads : TryFallback(t, RestartResponses, SaveOutcomes)
    \/ \E t \in Threads : TranslateReturn(t)
    \/ Construct
    \/ Tick

SpecRestart == InitRestart /\ [][NextRestart]_vars

\* Two callers on the one handler, translating and clearing the cache.
\* A provider fails or translates; there is no cache file at the start.
ConcTexts == { <<"a">>, <<"A">> }

ConcResponses ==
    { r \in Responses : r.exc \/ (r.status = 200 /\ r.rs = 200 /\ r.has
                                    /\ r.raw = <<"v", " ">>) }

InitConc ==
    /\ InitWith(Threads)
    /\ file.kind = "absent"

NextConc ==
    \/ \E t \in Threads : TranslateText(t, ConcTexts)
    \/ \E t \in Threads : RateLimit(t)
    \/ \E t \in Threads : RateLimitWake(t)
    \/ \E t \in Threads : ConcTryEndpoint(t, ConcResponses)
    \/ \E t \in Threads : ConcTryFallback(t, ConcResponses)
    \/ \E t \in Threads : ConcAssign(t)
    \/ \E t \in Threads : ConcOpen(t)
    \/ \E t \in Threads : ConcDumpEnd(t)
    \/ \E t \in Threads : TranslateReturn(t)
    \/ \E t \in Threads : ConcClear(t)
    \/ \E t \in Threads : ConcRemove(t)
    \/ \E t \in Threads : ClearReturn(t)
    \/ Tick

SpecConc == InitConc /\ [][NextConc]_vars

\* One caller who translates single texts and batches and clears the
\* cache.
InitUse ==
    /\ InitWith({1})
    /\ file \in BatchFiles

NextUse ==
    \/ \E t \in Threads : TranslateText(t, ConcTexts)
    \/ \E t \in Threads : TranslateBatch(t, BatchInputs)
    \/ \E t \in Threads : BatchNext(t)
    \/ \E t \in Threads : BatchAppend(t)
    \/ \E t \in Threads : BatchWake(t)
    \/ \E t \in Threads : BatchReturn(t)
    \/ \E t \in Threads : RateLimit(t)
    \/ \E t \in Threads : RateLimitWake(t)
    \/ \E t \in Threads : TryEndpoint(t, BatchResponses, {"ok"})
    \/ \E t \in Threads : TryFallback(t, BatchResponses, {"ok"})
    \/ \E t \in Threads : TranslateReturn(t)
    \/ \E t \in Threads : ClearCache(t)
    \/ \E t \in Threads : ClearReturn(t)
    \/ Tick

SpecUse == InitUse /\ [][NextUse]_vars

\* The handler under observation, its providers answering in every way
\* they can; there is no cache file at the start.
InitAdapters ==
    /\ InitState({1}, [NoObs EXCEPT !.on = TRUE])
    /\ file.kind = "absent"

NextAdapters ==
    \/ \E t \in Threads : TranslateText(t, NetTexts)
    \/ \E t \in Threads : RateLimit(t)
    \/ \E t \in Threads : RateLimitWake(t)
    \/ \E t \in Threads : TryEndpoint(t, Responses, {"ok"})
    \/ \E t \in Threads : TryFallback(t, Responses, {"ok"})
    \/ \E t \in Threads : TranslateReturn(t)
    \/ Tick

SpecAdapters == InitAdapters /\ [][NextAdapters]_vars

\* The caller's thread keeps running: a call that can take its next step
\* takes it, every adapter invocation returns, and time passes.
Progress(t) ==
    \/ RateLimit(t)
    \/ RateLimitWake(t)
    \/ TryEndpoint(t, BatchResponses, {"ok"})
    \/ TryFallback(t, BatchResponses, {"ok"})
    \/ BatchNext(t)
    \/ BatchAppend(t)
    \/ BatchWake(t)

SpecUseFair ==
    SpecUse /\ WF_vars(Tick) /\ WF_vars(\E t \in Threads : Progress(t))

\* ------------------------------------------------------------ claims
\* A thread is inside translate_text.
InCall(t) == pc[t] \in {"tt_rate", "tt_sleep", "tt_sweep", "tt_fallback", "tt_done"}

\* The adapters in the order translate_text is to invoke them.
SweepNames ==
    [j \in 1..Len(api_endpoints) |-> api_endpoints[j].description] \o <<"googletrans">>

\* The log names a prefix of that order.
InOrder(inv) ==
    /\ Len(inv) <= Len(SweepNames)
    /\ \A j \in 1..Len(inv) : inv[j].name = SweepNames[j]

\* Every configured endpoint and the fallback were invoked, and all failed.
AllFailed(inv) ==
    /\ Len(inv) = Len(SweepNames)
    /\ \A j \in 1..Len(inv) : ~inv[j].ok

\* C1: in a cache-miss call the endpoints are tried in list order from the
\* first; the call returns at the first endpoint whose adapter reports
\* success, labelled with that endpoint's description, and invokes no later
\* endpoint and not the fallback.
C1_FirstSuccessEndsSweep ==
    \A t \in Threads :
        /\ InOrder(call[t].invoked)
        /\ \A j \in 1..Len(call[t].invoked) :
             (call[t].invoked[j].ok /\ j <= Len(api_endpoints)) =>
                 /\ j = Len(call[t].invoked)
                 /\ pc[t] = "tt_done"
                 /\ ret[t] = Returned(TRUE, call[t].translation,
                                      api_endpoints[j].description)

\* C2: after a translate_text call returned a provider's translation, the
\* call that immediately follows with the identical text returns that
\* translation with the label "cache" and invokes no adapter.
C2_SecondCallIsCacheHit ==
    \A t \in Threads :
        (InCall(t) /\ prev.op = "translate_text" /\ prev.outcome = "provider"
                   /\ prev.arg = call[t].arg) =>
            /\ pc[t] = "tt_done"
            /\ ret[t] = Returned(TRUE, prev.value, "cache")
            /\ call[t].invoked = <<>>
            /\ call[t].rl = 0

C2_Witness ==
    /\ pc[1] = "tt_done"
    /\ prev.op = "translate_text" /\ prev.outcome = "provider"
    /\ prev.arg = call[1].arg
    /\ ret[1].label = "cache"

\* C3: a translate_text call with an empty or whitespace-only text returns
\* a failure in its first step, invokes no adapter and does not call the
\* rate limiter, and leaves cache, cache file and rate limiter state as
\* they were.
C3_BlankInputNoEffect ==
    [][ \A t \in Threads :
          (pc[t] = "idle" /\ InCall(t)' /\ strip(call'[t].arg) = <<>>) =>
              /\ pc'[t] = "tt_done"
              /\ ret'[t].kind = "ret" /\ ~ret'[t].success
              /\ call'[t].invoked = <<>>
              /\ call'[t].rl = 0
              /\ cache' = cache
              /\ file' = file
              /\ since_request' = since_request ]_vars

C3_Witness ==
    /\ pc[1] = "tt_done"
    /\ call[1].arg = <<" ">>
    /\ ret[1] = Returned(FALSE, ErrEmpty, "none")
    /\ since_request < min_request_interval
    /\ cache.map # EmptyMap

\* C4: a call in which every endpoint and the fallback fail returns the
\* failure and adds nothing to cache or file; the next call for the same
\* text is no cache hit and no remembered failure: it sweeps the endpoints
\* from the first, and goes through all of them and the fallback before it
\* fails again.
C4_NoNegativeCaching ==
    [][ \A t \in Threads :
          /\ (pc'[t] = "tt_done" /\ AllFailed(call'[t].invoked)) =>
                 /\ ret'[t] = Returned(FALSE, ErrFailed, "failed")
                 /\ ~InCache(cache', get_cache_key(call'[t].text))
          /\ (Len(call'[t].invoked) = Len(call[t].invoked) + 1
                 /\ ~call'[t].invoked[Len(call'[t].invoked)].ok) =>
                 (cache' = cache /\ file' = file)
          /\ (InCall(t)' /\ prev'.op = "translate_text" /\ prev'.outcome = "failed"
                 /\ prev'.arg = call'[t].arg) =>
                 /\ InOrder(call'[t].invoked)
                 /\ pc'[t] = "tt_done" =>
                        /\ call'[t].invoked # <<>>
                        /\ ret'[t].label # "cache"
                        /\ ret'[t].label = "failed" =>
                               Len(call'[t].invoked) = Len(SweepNames) ]_vars

C4_Witness ==
    /\ pc[1] = "tt_done"
    /\ prev.op = "translate_text" /\ prev.outcome = "failed"
    /\ prev.arg = call[1].arg
    /\ AllFailed(call[1].invoked)
    /\ ret[1].label = "failed"

\* C5: the fallback adapter is invoked exactly once in a call in which
\* every configured endpoint failed and not at all in any other call; its
\* success is written to the cache and returned as a success.
FallbackCount(inv) == Cardinality({ j \in 1..Len(inv) : inv[j].name = "googletrans" })

EveryEndpointFailed(inv) ==
    /\ Len(inv) >= Len(api_endpoints)
    /\ \A j \in 1..Len(api_endpoints) : ~inv[j].ok

C5_FallbackOnlyAfterAllFailed ==
    \A t \in Threads :
        pc[t] = "tt_done" =>
            /\ FallbackCount(call[t].invoked) =
                   (IF EveryEndpointFailed(call[t].invoked) THEN 1 ELSE 0)
            /\ \A j \in 1..Len(call[t].invoked) :
                 (call[t].invoked[j].name = "googletrans" /\ call[t].invoked[j].ok) =>
                     /\ ret[t].kind = "ret" /\ ret[t].success
                     /\ ret[t].value = call[t].translation
                     /\ InCache(cache, get_cache_key(call[t].text))
                     /\ cache.map[get_cache_key(call[t].text)] = call[t].translation

\* C6: an exception raised inside an endpoint adapter, the session or the
\* fallback never leaves translate_text: the invocation counts as that
\* provider's failure, the sweep goes on to the next endpoint or the
\* fallback, and after the fallback the call returns the final failure.
C6_AdapterExceptionsContained ==
    \A t \in Threads :
        /\ ret[t].kind = "exc" => (pc[t] = "cc_done" \/ call[t].invoked = <<>>)
        /\ (InCall(t) /\ call[t].raised) =>
              LET n == Len(call[t].invoked)
              IN  /\ n > 0
                  /\ ~call[t].invoked[n].ok
                  /\ IF n < Len(api_endpoints)
                     THEN pc[t] = "tt_sweep" /\ call[t].i = n + 1
                     ELSE IF n = Len(api_endpoints)
                     THEN pc[t] = "tt_fallback"
                     ELSE /\ pc[t] = "tt_done"
                          /\ ret[t] = Returned(FALSE, ErrFailed, "failed")

C6_Witness ==
    /\ pc[1] = "tt_done"
    /\ call[1].raised
    /\ Len(call[1].invoked) = Len(SweepNames)
    /\ ret[1].label = "failed"

\* C7: when the cache file cannot be written in a call in which a provider
\* succeeded, the call still returns that provider's translation and label,
\* and the entry is in the in-memory cache: translate_text of the same text
\* is a cache hit from then on.
ProviderLabel(name) == IF name = "googletrans" THEN "googletrans-fallback" ELSE name

C7_FailedWriteStillSuccess ==
    \A t \in Threads :
        (InCall(t) /\ call[t].saved \in {"fail", "torn"}) =>
            LET n == Len(call[t].invoked)
            IN  /\ pc[t] = "tt_done"
                /\ n > 0 /\ call[t].invoked[n].ok
                /\ ret[t] = Returned(TRUE, call[t].translation,
                                     ProviderLabel(call[t].invoked[n].name))
                /\ cache.kind = "dict"
                /\ InCache(cache, get_cache_key(call[t].text))
                /\ cache.map[get_cache_key(call[t].text)] = call[t].translation
                /\ tt_begin(cache, call[t].arg).ret =
                       Returned(TRUE, call[t].translation, "cache")

C7_Witness ==
    /\ pc[1] = "tt_done"
    /\ call[1].saved = "torn"
    /\ ret[1].success
    /\ file.kind = "bad"
    /\ InCache(cache, get_cache_key(call[1].text))

\* The item translate_batch is to return for the input at position k.
Describes(item, text_list, k) ==
    /\ item.index = k - 1
    /\ item.original = (IF strip(text_list[k]) = <<>> THEN text_list[k]
                        ELSE strip(text_list[k]))

\* C8: translate_batch returns exactly one item per input text, in input
\* order: for an input list of length n the result has length n, and the
\* item at position i has index i and describes input i, blank inputs
\* included.
C8_OneItemPerInput ==
    \A t \in Threads :
        pc[t] = "b_done" =>
            /\ ret[t].kind = "ret"
            /\ Len(batch[t].results) = Len(batch[t].texts)
            /\ \A k \in 1..Len(batch[t].results) :
                 Describes(batch[t].results[k], batch[t].texts, k)

\* The item of a blank input.
BlankItem(b) ==
    [index |-> b.i - 1, original |-> b.texts[b.i], success |-> FALSE,
     translation |-> <<>>, error |-> ErrBlankItem, endpoint |-> "none"]

\* C9: when translate_batch comes to a blank or whitespace-only input, its
\* next step appends the failure item and goes on to the next input; no
\* translate_text call is made for it, hence no adapter is invoked and the
\* rate limiter is not called, and cache, cache file and rate limiter state
\* stay as they were.
C9_BlankItemNoEffect ==
    [][ \A t \in Threads :
          (/\ pc[t] = "b_loop"
           /\ batch[t].i <= Len(batch[t].texts)
           /\ strip(batch[t].texts[batch[t].i]) = <<>>
           /\ << pc[t], batch[t], call[t], ret[t] >>' # << pc[t], batch[t], call[t], ret[t] >>) =>
              /\ pc'[t] = "b_loop"
              /\ batch'[t].results = Append(batch[t].results, BlankItem(batch[t]))
              /\ batch'[t].i = batch[t].i + 1
              /\ call'[t] = NoCall
              /\ cache' = cache
              /\ file' = file
              /\ since_request' = since_request ]_vars

C9_Witness ==
    /\ pc[1] = "b_loop"
    /\ Len(batch[1].results) = 2
    /\ batch[1].results[1].success
    /\ batch[1].results[2].error = ErrBlankItem
    /\ batch[1].results[2].original = <<" ">>
    /\ since_request < min_request_interval
    /\ cache.map # EmptyMap

\* C10: clear_cache on a handler whose cache holds N entries removes all N
\* and returns N, and a get_cache_stats call made right after it reports
\* total_entries = 0 and cache_file_exists = false.
C10_ClearThenStats ==
    [][ \A t \in Threads :
          /\ (pc[t] = "idle" /\ pc'[t] = "cc_done") =>
                 /\ ret'[t].kind = "ret"
                 /\ ret'[t].n = CacheLen(cache)
                 /\ CacheLen(cache') = 0
          /\ (pc[t] = "idle" /\ pc'[t] = "gs_done"
                 /\ prev.op = "clear_cache" /\ prev.outcome = "ret") =>
                 /\ ret'[t].n = 0
                 /\ ~ret'[t].exists ]_vars

\* The adapter translate_text invoked last in the call of thread t checks
\* for an echo: MyMemory or the googletrans fallback.
LastChecksEcho(t) ==
    LET n == Len(call[t].invoked)
    IN  /\ n > 0
        /\ IF n <= Len(api_endpoints) THEN api_endpoints[n].type = "mymemory"
           ELSE call[t].invoked[n].name = "googletrans"

\* The response the latest provider call ended with carries a translation
\* that equals text when case is ignored.
IsEcho(r, text) ==
    /\ ~r.exc
    /\ r.has
    /\ lower(strip(r.raw)) = lower(text)

\* C11: when MyMemory or the googletrans fallback gets the input text back
\* as the translation, case ignored, the adapter reports a failure: the
\* translation is not returned by the call and not put into the cache.
C11_EchoIsFailure ==
    \A t \in Threads :
        (InCall(t) /\ LastChecksEcho(t) /\ IsEcho(obs.resp, call[t].text)) =>
            /\ ~call[t].invoked[Len(call[t].invoked)].ok
            /\ ~(ret[t].kind = "ret" /\ ret[t].success)
            /\ ~InCache(cache, get_cache_key(call[t].text))

C11_Witness ==
    /\ pc[1] = "tt_sweep"
    /\ Len(call[1].invoked) = 1
    /\ call[1].text = <<"a">>
    /\ obs.resp.status = 200 /\ obs.resp.rs = 200
    /\ obs.resp.raw = <<"A">>
    /\ ~call[1].invoked[1].ok

\* The statuses the claims call transient.
TransientStatuses == {429, 500, 502, 503, 504}

AllTransient(statuses) ==
    /\ statuses # <<>>
    /\ \A j \in 1..Len(statuses) : statuses[j] \in TransientStatuses

\* The latest session request is over and belongs to the log's last entry
\* of the call of thread t.
RequestLogged(t) ==
    /\ InCall(t)
    /\ ~obs.open
    /\ Len(call[t].invoked) \in 1..Len(api_endpoints)

\* C12: the session caps the attempts of one request at max_retries = 3: no
\* request is attempted more often, and a request whose every attempt got a
\* transient status was attempted exactly 3 times and ended as a failure of
\* its adapter.
C12_AttemptsCappedAtThree ==
    /\ Len(obs.attempts) <= max_retries
    /\ \A t \in Threads :
         (RequestLogged(t) /\ AllTransient(obs.attempts)) =>
             /\ Len(obs.attempts) = max_retries
             /\ ~call[t].invoked[Len(call[t].invoked)].ok

\* C12, amended: max_retries = 3 caps the retries, not the attempts: no
\* request is attempted more than 4 times, and a request whose every
\* attempt got a transient status was attempted exactly 4 times (the first
\* attempt and 3 retries); the session then raised, which the adapter's
\* caller reports as a failure of that endpoint.
C12_RetriesCappedAtThree ==
    /\ Len(obs.attempts) <= max_retries + 1
    /\ \A t \in Threads :
         (RequestLogged(t) /\ AllTransient(obs.attempts)) =>
             /\ Len(obs.attempts) = max_retries + 1
             /\ obs.resp = RetriesExhausted
             /\ call[t].raised
             /\ ~call[t].invoked[Len(call[t].invoked)].ok

C12_Witness ==
    /\ pc[1] = "tt_sweep"
    /\ ~obs.open
    /\ obs.attempts = <<503, 503, 503, 503>>
    /\ Len(call[1].invoked) = 1
    /\ ~call[1].invoked[1].ok

\* Transient statuses, fewer than the cap the claims speak of, and then
\* a 200.
TransientThenOk(statuses) ==
    LET n == Len(statuses)
    IN  /\ n \in 2..max_retries
        /\ statuses[n] = 200
        /\ \A j \in 1..(n - 1) : statuses[j] \in TransientStatuses

\* While only transient statuses have come, fewer than the cap, the request
\* stays in flight; the attempt that receives the 200 ends it, and the
\* adapter gets that response and judges it as it judges any 200 response.
C13_OkDelivered ==
    /\ (AllTransient(obs.attempts) /\ Len(obs.attempts) < max_retries) => obs.open
    /\ TransientThenOk(obs.attempts) => ~obs.open
    /\ \A t \in Threads :
         (RequestLogged(t) /\ TransientThenOk(obs.attempts)) =>
             LET n == Len(call[t].invoked)
             IN  /\ obs.resp.status = 200
                 /\ obs.resp \in Bodies
                 /\ call[t].invoked[n].ok =
                        (try_endpoint(call[t].text, api_endpoints[n], obs.resp).st = "ok")

\* C13: a request whose attempts receive transient statuses and, within
\* the cap, a 200 (503, 503, 200) is retried until the 200 arrives, which
\* the session hands to the adapter to be judged as a normal response; and
\* every request in flight comes to its end.
C13_RetriedUntilOk ==
    /\ []C13_OkDelivered
    /\ (obs.open ~> ~obs.open)

C13_Witness ==
    /\ pc[1] = "tt_done"
    /\ obs.attempts = <<503, 503, 200>>
    /\ ~obs.open
    /\ obs.resp.status = 200
    /\ Len(call[1].invoked) = 1
    /\ call[1].invoked[1].ok
    /\ ret[1].success

\* The 4xx statuses that are not transient.
FinalClientErrors == (400..499) \ TransientStatuses

\* No attempt follows one that received such a status.
C14_ClientErrorIsLast ==
    /\ \A j \in 1..Len(obs.attempts) :
         obs.attempts[j] \in FinalClientErrors => (j = Len(obs.attempts) /\ ~obs.open)
    /\ \A t \in Threads :
         (RequestLogged(t) /\ obs.attempts[Len(obs.attempts)] \in FinalClientErrors) =>
             ~call[t].invoked[Len(call[t].invoked)].ok

\* The step in which an endpoint's request ends with such a status: a first
\* attempt stays the only one, the endpoint is logged as failed, and the
\* sweep stands at the next endpoint or at the fallback.
C14_ClientErrorStep ==
    \A t \in Threads :
        (/\ pc[t] = "tt_sweep"
         /\ Len(call'[t].invoked) = Len(call[t].invoked) + 1
         /\ obs'.attempts[Len(obs'.attempts)] \in FinalClientErrors) =>
            /\ ~obs.open => Len(obs'.attempts) = 1
            /\ call'[t].invoked =
                   Append(call[t].invoked,
                          [name |-> api_endpoints[call[t].i].description, ok |-> FALSE])
            /\ call'[t].i = call[t].i + 1
            /\ pc'[t] = (IF call[t].i < Len(api_endpoints) THEN "tt_sweep"
                         ELSE "tt_fallback")
            /\ cache' = cache /\ file' = file

EndedWithoutMiss(t) ==
    /\ pc[t] = "tt_done"
    /\ call[t].invoked = <<>>
    /\ (ret[t].kind = "exc" \/ ret[t].label \in {"none", "cache"})

\* How often a call has called _rate_limit, by where the call stands.
C15_RateLimitCount ==
    \A t \in Threads :
        InCall(t) =>
            /\ call[t].rl = (IF pc[t] = "tt_rate" \/ EndedWithoutMiss(t) THEN 0 ELSE 1)
            /\ call[t].invoked # <<>> => call[t].rl = 1
            /\ (pc[t] = "tt_done" /\ ret[t].kind = "ret"
                    /\ ret[t].label \notin {"none", "cache"}) => call[t].rl = 1

\* _rate_limit is called where no adapter has been invoked yet, and an
\* adapter is invoked only after _rate_limit has returned.
C15_RateLimitStep ==
    \A t \in Threads :
        /\ call'[t].rl > call[t].rl =>
               /\ pc[t] = "tt_rate"
               /\ call[t].invoked = <<>>
               /\ call'[t].invoked = <<>>
        /\ Len(call'[t].invoked) > Len(call[t].invoked) =>
               /\ pc[t] \in {"tt_sweep", "tt_fallback"}
               /\ call[t].rl = 1 /\ call'[t].rl = 1

\* C15: a translate_text call that misses the cache calls _rate_limit
\* exactly once, before the first adapter is invoked, and not again for
\* later endpoints or the fallback; a call with blank input or a cache hit
\* never calls it.
C15_RateLimitOncePerMiss ==
    /\ []C15_RateLimitCount
    /\ [][C15_RateLimitStep]_vars

C15_Witness ==
    /\ pc[1] = "tt_done"
    /\ Len(call[1].invoked) = Len(SweepNames)
    /\ call[1].rl = 1
    /\ ret[1].label = "failed"

\* While _rate_limit sleeps, what is left of the sleep makes up for what is
\* missing of the interval.
C16_SleepCoversInterval ==
    \A t \in Threads :
        pc[t] = "tt_sleep" => since_request + call[t].sleep >= min_request_interval

\* _rate_limit is entered (it sleeps only for what is missing of the
\* interval, not at all when the interval is over) and returns (the
\* interval since the previous return is over, and the clock starts anew).
C16_RateLimitStep ==
    \A t \in Threads :
        /\ (pc[t] = "tt_rate" /\ pc'[t] = "tt_sleep") =>
               /\ since_request >= min_request_interval => call'[t].sleep = 0
               /\ since_request < min_request_interval =>
                      call'[t].sleep = min_request_interval - since_request
        /\ (pc[t] = "tt_sleep" /\ pc'[t] # "tt_sleep") =>
               /\ since_request >= min_request_interval
               /\ since_request' = 0

\* C16: in sequential calls on one handler _rate_limit returns no earlier
\* than min_request_interval after its previous return, and does not wait
\* when that interval is already over.
C16_MinimumInterval ==
    /\ []C16_SleepCoversInterval
    /\ [][C16_RateLimitStep]_vars

C16_Witness ==
    /\ pc[1] = "tt_sleep"
    /\ prev.op = "translate_text" /\ prev.outcome = "failed"
    /\ since_request = 2
    /\ call[1].sleep = 3

\* Thread t makes an outbound provider call in this step: an attempt of a
\* session request, or the call of the fallback.
OutboundCall(t) ==
    /\ pc[t] \in {"tt_sweep", "tt_fallback"}
    /\ (call'[t] # call[t] \/ obs'.attempts # obs.attempts)

\* C17: any two consecutive outbound provider calls of a handler, those to
\* successive endpoints and to the fallback inside one sweep included, are
\* at least min_request_interval apart.
C17_CallsSpaced ==
    [][ \A t \in Threads :
          OutboundCall(t) => obs.since_call >= min_request_interval ]_vars

\* C17, amended: the rate limiter spaces the sweeps, not the provider
\* calls.  Every outbound call is made after the one _rate_limit return of
\* its translate_text call, and the first outbound call of a sweep comes no
\* earlier than min_request_interval after the _rate_limit return of the
\* previous sweep.
C17_SweepsSpaced ==
    [][ \A t \in Threads :
          OutboundCall(t) =>
              /\ call[t].rl = 1
              /\ obs.gap + since_request >= min_request_interval ]_vars

C17_Witness ==
    /\ pc[1] = "tt_sweep"
    /\ prev.op = "translate_text" /\ prev.outcome = "failed"
    /\ Len(call[1].invoked) = 2
    /\ obs.since_call = 0
    /\ since_request = 1

EndpointDescriptions == { api_endpoints[j].description : j \in 1..Len(api_endpoints) }

\* C18: the label translate_text returns is the description of a
\* configured endpoint, "cache" or "failed", whatever the input and the
\* outcome.
C18_LabelOneOfThree ==
    \A t \in Threads :
        (pc[t] = "tt_done" /\ ret[t].kind = "ret") =>
            ret[t].label \in EndpointDescriptions \cup {"cache", "failed"}

\* C18, amended: the label is the description of a configured endpoint
\* (that endpoint succeeded), "googletrans-fallback" (the fallback
\* succeeded), "cache" (a cache hit), "failed" (all failed) or "none"
\* (blank input).
C18_LabelOneOfFive ==
    \A t \in Threads :
        (pc[t] = "tt_done" /\ ret[t].kind = "ret") =>
            LET n == Len(call[t].invoked)
                label == ret[t].label
            IN  /\ label \in EndpointDescriptions
                                \cup {"googletrans-fallback", "cache", "failed", "none"}
                /\ label = "none" <=> strip(call[t].arg) = <<>>
                /\ label = "cache" => (ret[t].success /\ n = 0 /\ strip(call[t].arg) # <<>>)
                /\ label = "failed" => (~ret[t].success /\ n = Len(SweepNames))
                /\ label \in EndpointDescriptions =>
                       /\ ret[t].success
                       /\ n \in 1..Len(api_endpoints)
                       /\ api_endpoints[n].description = label
                       /\ call[t].invoked[n].ok
                /\ label = "googletrans-fallback" =>
                       /\ ret[t].success
                       /\ n = Len(SweepNames)
                       /\ call[t].invoked[n].ok

C18_Witness ==
    /\ pc[1] = "tt_done"
    /\ ret[1].kind = "ret" /\ ret[1].success
    /\ ret[1].label = "googletrans-fallback"
    /\ Len(call[1].invoked) = Len(SweepNames)

\* C19: the cache survives a restart.  After a translate_text call that
\* got a translation from a provider and whose cache write did not fail, a
\* handler constructed anew on the same cache directory has loaded that
\* entry, and its translate_text of the same text returns the same
\* translation with the label "cache", with no adapter invoked and no call
\* of the rate limiter.
C19_CacheSurvivesRestart ==
    obs.kept.restarted =>
        /\ cache.kind = "dict"
        /\ InCache(cache, get_cache_key(strip(obs.kept.arg)))
        /\ cache.map[get_cache_key(strip(obs.kept.arg))] = obs.kept.value
        /\ \A t \in Threads :
             (InCall(t) /\ call[t].arg = obs.kept.arg) =>
                 /\ pc[t] = "tt_done"
                 /\ ret[t] = Returned(TRUE, obs.kept.value, "cache")
                 /\ call[t].invoked = <<>>
                 /\ call[t].rl = 0

C19_Witness ==
    /\ pc[1] = "tt_done"
    /\ prev.op = "construct"
    /\ obs.kept.restarted
    /\ obs.kept.arg = <<" ", "a", " ">>
    /\ call[1].arg = obs.kept.arg
    /\ ret[1].label = "cache"

\* C20: lookup and insertion use the key of the trimmed text.  A call that
\* returns a provider's translation has put it under the key of its trimmed
\* argument, and when a call has returned a translation (from a provider or
\* from the cache), the next call with an argument that is the same once
\* trimmed is a cache hit with that translation.
C20_TrimmedKey ==
    \A t \in Threads :
        /\ (pc[t] = "tt_done" /\ ret[t].kind = "ret" /\ ret[t].success) =>
               /\ InCache(cache, get_cache_key(strip(call[t].arg)))
               /\ cache.map[get_cache_key(strip(call[t].arg))] = ret[t].value
        /\ (InCall(t) /\ prev.op = "translate_text"
                /\ prev.outcome \in {"provider", "cache"}
                /\ strip(prev.arg) = strip(call[t].arg)) =>
               /\ pc[t] = "tt_done"
               /\ ret[t] = Returned(TRUE, prev.value, "cache")
               /\ call[t].invoked = <<>>

C20_Witness ==
    /\ pc[1] = "tt_done"
    /\ prev.op = "translate_text" /\ prev.outcome = "provider"
    /\ prev.arg = <<"a">>
    /\ call[1].arg = <<" ", "a", " ">>
    /\ ret[1] = Returned(TRUE, prev.value, "cache")

\* Thread t's _rate_limit returns in this step.
Acquired(t) == pc[t] = "tt_sleep" /\ pc'[t] # "tt_sleep"

\* C21: when two translate_text calls run concurrently on the shared
\* handler and both miss the cache, any two returns of _rate_limit, whichever
\* threads they belong to, are at least min_request_interval apart.
C21_AcquisitionsSpaced ==
    [][\A t \in Threads : Acquired(t) => since_request >= min_request_interval]_vars

\* The mapping the cache file holds, an absent file counting as empty.
PersistedMap(f) == IF f.kind = "absent" THEN EmptyMap ELSE f.map

\* No call is in progress.
Quiescent == \A t \in Threads : pc[t] \in {"idle", "off"}

\* C22: when translate_text calls, or a translate_text and a clear_cache
\* call, overlap on the shared handler, then once all of them have finished
\* the cache file is not torn and the mapping it holds is the in-memory
\* cache.
C22_PersistedIsMemory ==
    (Quiescent /\ prev.op # "none") =>
        /\ file.kind # "bad"
        /\ PersistedMap(file) = cache.map

\* Thread t takes a step of a translate_text call that is served from the
\* cache: the lookup that finds the entry, or the return to the caller.
CacheHitStep(t) ==
    \/ pc[t] = "idle" /\ pc'[t] = "tt_done" /\ ret'[t].label = "cache"
    \/ pc[t] = "tt_done" /\ ret[t].label = "cache" /\ pc'[t] # "tt_done"

\* C23: a translate_text call that is served from the cache changes
\* nothing: the in-memory cache, the cache file and last_request_time are
\* after the call what they were before it, and the call neither enters the
\* rate limiter nor invokes an adapter.
C23_CacheHitNoEffect ==
    [][\A t \in Threads :
          CacheHitStep(t) =>
              /\ cache' = cache
              /\ file' = file
              /\ since_request' = since_request
              /\ api_endpoints' = api_endpoints
              /\ pc'[t] = "tt_done" => (call'[t].rl = 0 /\ call'[t].invoked = <<>>)]_vars

\* A second hit in a row, within the interval after the sweep that filled
\* the cache.
C23_Witness ==
    /\ pc[1] = "tt_done" /\ ret[1].label = "cache"
    /\ prev.op = "translate_text" /\ prev.outcome = "cache"
    /\ since_request = 2
    /\ file.kind = "dict" /\ Cardinality(DOMAIN file.map) = 2

\* The cache file holds what the handler holds in memory, an absent file
\* counting as empty.
Persisted(c, f) == IF f.kind = "absent" THEN c.map = EmptyMap ELSE c = f

\* _load_cache can read file f: there is none, or json.load and len() go
\* through.
Loadable(f) == f.kind \notin {"bad", "scalar"}

\* A file operation fails in this step: the write of _save_cache, the
\* os.remove of clear_cache (the file is still there), or the read of
\* _load_cache.
FileOperationFails ==
    \/ \E t \in Threads : call[t].saved = "none" /\ call'[t].saved \in {"fail", "torn"}
    \/ \E t \in Threads : pc[t] = "idle" /\ pc'[t] = "cc_done" /\ FileExists(file')
    \/ prev'.op = "construct" /\ prev' # prev /\ ~Loadable(file)

\* C24: with one caller at a time and no failing file operation, the cache
\* file holds the in-memory cache after construction and after every
\* completed translate_text or clear_cache call: a new entry is written in
\* full before the call returns, and a step without a failing file
\* operation never separates the two.
C24_PersistedInFull ==
    /\ (Loadable(file) => Persisted(cache, file))
    /\ [][(Persisted(cache, file) /\ ~FileOperationFails) => Persisted(cache', file')]_vars
    /\ [][(prev'.op = "construct" /\ prev' # prev /\ Loadable(file))
              => Persisted(cache', file')]_vars

\* A second entry has just been written next to the first.
C24_Witness ==
    /\ Quiescent
    /\ prev.op = "translate_text" /\ prev.outcome = "provider"
    /\ file.kind = "dict" /\ Cardinality(DOMAIN file.map) = 2
    /\ Persisted(cache, file)

\* Some adapter reported success in the call logged as inv.
SomeSucceeded(inv) == \E j \in 1..Len(inv) : inv[j].ok

\* C25: a translate_text call with a non-blank text returns a failure only
\* if every configured endpoint and the fallback were each invoked in that
\* call and each failed; a call in which some adapter reported success
\* returns success.
C25_FailureMeansAllFailed ==
    \A t \in Threads :
        (pc[t] = "tt_done" /\ ret[t].kind = "ret" /\ call[t].text # <<>>) =>
            /\ ~ret[t].success => AllFailed(call[t].invoked)
            /\ SomeSucceeded(call[t].invoked) => ret[t].success

\* C26: whatever the cache file held when the handler was constructed
\* (nothing, something unreadable, no JSON, JSON that is no mapping), no
\* translate_text call raises, and a call in which a provider has just
\* reported success returns success with that provider's translation.
C26_AnyCacheFileServes ==
    \A t \in Threads :
        InCall(t) =>
            /\ ret[t].kind # "exc"
            /\ (call[t].invoked # <<>> /\ call[t].invoked[Len(call[t].invoked)].ok) =>
                   /\ pc[t] = "tt_done"
                   /\ ret[t].kind = "ret" /\ ret[t].success
                   /\ ret[t].value = call[t].translation

\* C27: no translate_text, translate_batch or clear_cache call changes
\* api_endpoints: the list stays as constructed, and every sweep, whatever
\* the earlier calls ended with, starts at the first endpoint of that list.
C27_EndpointsFixed ==
    /\ [](api_endpoints = Endpoints)
    /\ [](\A t \in Threads :
             call[t].invoked # <<>> =>
                 call[t].invoked[1].name = Endpoints[1].description)
    /\ [][\A t \in Threads :
             Acquired(t) => (pc'[t] = "tt_sweep" /\ call'[t].i = 1)]_vars

\* The sweep for a batch's second item is about to start, after the first
\* item was translated by the last endpoint of the list.
C27_Witness ==
    /\ pc[1] = "tt_sweep" /\ call[1].i = 1 /\ call[1].invoked = <<>>
    /\ batch[1].active /\ Len(batch[1].results) = 1
    /\ batch[1].results[1].endpoint = Endpoints[Len(Endpoints)].description

\* The loop of translate_batch is at a non-blank item and thread t takes
\* its step.
AtNonBlankItem(t) ==
    /\ pc[t] = "b_loop"
    /\ batch[t].i <= Len(batch[t].texts)
    /\ strip(batch[t].texts[batch[t].i]) # <<>>
    /\ << pc[t], batch[t], call[t], ret[t] >>' # << pc[t], batch[t], call[t], ret[t] >>

\* translate_text has returned to the loop of translate_batch, which takes
\* its next step.
ItemReturned(t) ==
    /\ pc[t] = "tt_done" /\ batch[t].active /\ ret[t].kind = "ret"
    /\ pc'[t] # "tt_done"

\* C28: for a non-blank input translate_batch makes the translate_text
\* call a direct caller would make with that text in the handler state the
\* preceding items left, and the item it appends carries that call's
\* success flag and endpoint label, with the result string under
\* translation on success and under error on failure.
C28_ItemIsTranslateText ==
    [][\A t \in Threads :
          /\ AtNonBlankItem(t) =>
                 LET bg == tt_begin(cache, batch[t].texts[batch[t].i])
                 IN  /\ pc'[t] = bg.pc /\ call'[t] = bg.call /\ ret'[t] = bg.ret
                     /\ batch'[t] = batch[t]
          /\ ItemReturned(t) =>
                 /\ Len(batch'[t].results) = Len(batch[t].results) + 1
                 /\ LET item == batch'[t].results[Len(batch'[t].results)]
                    IN  /\ item.success = ret[t].success
                        /\ item.endpoint = ret[t].label
                        /\ ret[t].success =>
                               (item.translation = ret[t].value /\ item.error = <<>>)
                        /\ ~ret[t].success =>
                               (item.error = ret[t].value /\ item.translation = <<>>)]_vars

\* A failed item followed by one served from the cache.
C28_Witness ==
    /\ Len(batch[1].results) = 2
    /\ batch[1].results[1].endpoint = "failed"
    /\ batch[1].results[1].error = ErrFailed
    /\ batch[1].results[2].endpoint = "cache"
    /\ batch[1].results[2].translation = <<"v">>

\* C29: after the item of a non-blank input that is not the last element
\* of the list translate_batch sleeps once, for batch_delay, whether the
\* item was served from the cache, by a provider or failed, and goes on to
\* the next input only when that sleep is over; after the last element it
\* does not sleep.
C29_DelayBetweenItems ==
    [][\A t \in Threads :
          /\ (ItemReturned(t) /\ batch[t].i < Len(batch[t].texts)) =>
                 /\ pc'[t] = "b_sleep"
                 /\ batch'[t].sleep = batch_delay
                 /\ batch'[t].i = batch[t].i
          /\ (ItemReturned(t) /\ batch[t].i = Len(batch[t].texts)) =>
                 /\ pc'[t] = "b_loop"
                 /\ batch'[t].sleep = 0
                 /\ batch'[t].i = Len(batch[t].texts) + 1
          /\ (pc[t] = "b_sleep" /\ pc'[t] # "b_sleep") =>
                 /\ batch[t].sleep = 0
                 /\ pc'[t] = "b_loop"
                 /\ batch'[t].i = batch[t].i + 1]_vars

\* The loop sleeps after a first item that came out of the cache.
C29_Witness ==
    /\ pc[1] = "b_sleep" /\ batch[1].sleep = batch_delay
    /\ Len(batch[1].texts) = 2 /\ Len(batch[1].results) = 1
    /\ batch[1].results[1].endpoint = "cache"

\* C30: no item of a batch result has both a translation and an error: a
\* successful item has an empty error, a failed item an empty translation.
C30_TranslationOrError ==
    \A t \in Threads :
        \A k \in 1..Len(batch[t].results) :
            LET item == batch[t].results[k]
            IN  /\ item.success => item.error = <<>>
                /\ ~item.success => item.translation = <<>>
                /\ ~(item.translation # <<>> /\ item.error # <<>>)

\* A returned batch with a translated item and a failed one.
C30_Witness ==
    /\ pc[1] = "b_done" /\ ret[1].kind = "ret"
    /\ Len(batch[1].results) = 2
    /\ batch[1].results[1].success /\ batch[1].results[1].translation = <<"v">>
    /\ ~batch[1].results[2].success /\ batch[1].results[2].error = ErrFailed

\* Response r carries no translation: the field is missing, empty or
\* whitespace-only.
NoTranslation(r) == ~r.has \/ strip(r.raw) = <<>>

\* C31: an adapter reports success only with a translation that is
\* non-empty and trimmed: a response without a translation field, or with
\* an empty or whitespace-only one, is a failure of that adapter whatever
\* its status, and every value translate_text has put into the cache is a
\* non-empty string.
C31_NonEmptyTranslation ==
    /\ \A t \in Threads :
          (InCall(t) /\ call[t].invoked # <<>>) =>
              LET last == call[t].invoked[Len(call[t].invoked)]
              IN  /\ last.ok => (/\ call[t].translation # <<>>
                                 /\ strip(call[t].translation) = call[t].translation)
                  /\ NoTranslation(obs.resp) => ~last.ok
                  /\ (ret[t].kind = "ret" /\ ret[t].success) => ret[t].value # <<>>
    /\ \A k \in DOMAIN cache.map : strip(cache.map[k]) # <<>>

\* LibreTranslate has answered 200 with a whitespace-only translatedText,
\* and the sweep goes on.
C31_Witness ==
    /\ pc[1] = "tt_sweep"
    /\ Len(call[1].invoked) = 2
    /\ obs.resp.status = 200 /\ obs.resp.has /\ obs.resp.raw = <<" ">>
    /\ ~call[1].invoked[2].ok

\* Thread t's translate_text puts a new entry into the cache in this step:
\* the key of its trimmed text was not there, and nothing else changes.
FirstWrite(t) ==
    /\ pc[t] \in {"tt_sweep", "tt_fallback"}
    /\ cache.kind = "dict"
    /\ ~InCache(cache, get_cache_key(call[t].text))
    /\ cache' = Dict(Put(cache.map, get_cache_key(call[t].text), call'[t].translation))

\* Thread t's clear_cache empties the cache in this step.
ClearStep(t) == pc[t] = "idle" /\ pc'[t] = "cc_done"

\* A new handler is constructed in this step.
ConstructStep == prev'.op = "construct" /\ cache' = load_cache(file)

\* Thread t's translate_text looks up a non-blank text whose key is in the
\* dict.
LooksUpEntry(t) ==
    /\ pc[t] \in {"idle", "b_loop"} /\ InCall(t)'
    /\ call'[t].text # <<>>
    /\ cache.kind = "dict"
    /\ InCache(cache, get_cache_key(call'[t].text))

\* C32: with one caller at a time, the cache changes only when clear_cache
\* empties it, when a handler is constructed, or when translate_text adds
\* an entry for a trimmed text that had none; no translate_text call changes
\* or removes an entry.  A call that returns success has its entry in a
\* dict, and every translate_text of a text that has an entry returns that
\* entry's translation from the cache.
C32_EntryWrittenOnce ==
    /\ [](\A t \in Threads :
             (pc[t] = "tt_done" /\ ret[t].kind = "ret" /\ ret[t].success) =>
                 /\ cache.kind = "dict"
                 /\ InCache(cache, get_cache_key(call[t].text))
                 /\ cache.map[get_cache_key(call[t].text)] = ret[t].value)
    /\ [][cache' # cache =>
             \/ ConstructStep
             \/ \E t \in Threads : ClearStep(t) \/ FirstWrite(t)]_vars
    /\ [][\A t \in Threads :
             LooksUpEntry(t) =>
                 /\ pc'[t] = "tt_done"
                 /\ ret'[t] = Returned(TRUE, cache.map[get_cache_key(call'[t].text)],
                                       "cache")
                 /\ cache' = cache]_vars

\* An entry is served from the cache after a later call has added another
\* entry.
C32_Witness ==
    /\ pc[1] = "tt_done" /\ ret[1].label = "cache"
    /\ prev.op = "translate_text" /\ prev.outcome = "provider"
    /\ strip(prev.arg) # call[1].text
    /\ Cardinality(DOMAIN cache.map) = 2

\* What a call has used so far, and how it ended if it has: at most one
\* _rate_limit call, at most len(api_endpoints) + 1 adapter invocations,
\* each adapter at most once; a translate_text that is over has a result,
\* and a translate_batch that is over has one item for each input.
C33_Bounded ==
    \A t \in Threads :
        /\ call[t].rl <= 1
        /\ Len(call[t].invoked) <= Len(api_endpoints) + 1
        /\ InOrder(call[t].invoked)
        /\ pc[t] = "tt_done" => ret[t].kind = "ret"
        /\ pc[t] = "b_done" =>
               /\ ret[t].kind = "ret"
               /\ Len(batch[t].results) = Len(batch[t].texts)
               /\ \A k \in 1..Len(batch[t].results) : batch[t].results[k].index = k - 1

\* C33: every translate_text call comes to its end with a result, after at
\* most one rate limiter wait and at most len(api_endpoints) + 1 adapter
\* invocations, no endpoint invoked twice, provided every adapter
\* invocation returns; every translate_batch call comes to its end, having
\* processed each input exactly once.
C33_Terminates ==
    /\ []C33_Bounded
    /\ \A t \in Threads : InCall(t) ~> (pc[t] = "tt_done" /\ ret[t].kind = "ret")
    /\ \A t \in Threads : batch[t].active ~> (pc[t] = "b_done" /\ ret[t].kind = "ret")

====
